---- MODULE Spec2Model ----
(***************************************************************************)
(* speakersafetyd: the supervisor loop of src/main.rs, the thermal model   *)
(* of src/types.rs (Speaker) and the blackbox ring of src/blackbox.rs.     *)
(*                                                                         *)
(* Numbers.  Temperatures are integers counting quarter degrees: every     *)
(* integer is an f64 value, and the f32 values are the even integers       *)
(* (f32 is the coarser grid; F32 rounds to it, ties to even).  Gains are   *)
(* integers counting thousandths of a dB.                                  *)
(* Time is counted in ticks of 1/TicksPerSec second.  Sample values are    *)
(* raw i16 integers.                                                       *)
(***************************************************************************)
EXTENDS Integers, Sequences, FiniteSets, TLC

(***************************************************************************)
(* Bounds of the model.                                                    *)
(***************************************************************************)
\* iterations of the supervisor loop that are started
MaxIter == 2
\* cap on the wall time accumulated since last_update, in ticks
MaxElapsed == 17

(***************************************************************************)
(* Units.                                                                  *)
(***************************************************************************)
\* 1f64 degree (types.rs:293) in temperature units
OneDegree == 4
\* the f32 grid, in temperature units
F32Step == 2
\* ticks per second
TicksPerSec == 2

None == "None"

Min(a, b) == IF a <= b THEN a ELSE b
Max(a, b) == IF a >= b THEN a ELSE b

\* n / d rounded to the nearest integer, ties to even (IEEE default), d > 0
RoundDiv(n, d) ==
    LET q == n \div d
        r == n % d
    IN  IF 2 * r < d THEN q
        ELSE IF 2 * r > d THEN q + 1
        ELSE IF q % 2 = 0 THEN q ELSE q + 1

\* `x as f32` of an f64 temperature: the nearest f32 value, ties to even
F32(x) == F32Step * RoundDiv(x, F32Step)

\* `0xdec1be15u32 as i32`: the two's complement reading of the 32 bits hi:lo
U32AsI32(hi, lo) == IF hi >= 32768 THEN (hi - 65536) * 65536 + lo ELSE hi * 65536 + lo

UNLOCK_MAGIC == U32AsI32(57025, 48661)

(***************************************************************************)
(* Configuration (Globals and the Speaker sections of the config file).    *)
(***************************************************************************)
Speakers == {"L", "R"}
\* the order of the Speaker/ sections of the config file
SpeakerNames == <<"L", "R">>

\* the configuration file: the values the startup asserts read
VARIABLE cfg

channels == 4
period == 2
t_ambient == cfg.t_ambient
t_window == cfg.t_window
t_hysteresis == 4

tau_coil == 1
tau_magnet == 3
tr_coil == 16
tr_magnet == 16
t_limit == cfg.t_limit
t_headroom == 4
z_nominal == 1
is_scale == 2
vs_scale == 2
vs_chan(s) == IF s = "L" THEN 0 ELSE 2
is_chan(s) == IF s = "L" THEN 1 ELSE 3

\* the amp gain read back from the amplifier, in dB
amp_gain == 0

(***************************************************************************)
(* Speaker (src/types.rs).                                                 *)
(***************************************************************************)
\* 10^(db / 10) for the amp gains that occur
Pow10Tenth(db) == IF db >= 6 THEN 4 ELSE IF db >= 3 THEN 2 ELSE 1

\* 10 * log10(num / den) in thousandths of a dB, in steps of one doubling
\* (3.010 dB): exact when num / den is a power of two
RECURSIVE TenLog10(_, _)
TenLog10(num, den) ==
    IF num <= 0 THEN -99999
    ELSE IF num >= 2 * den THEN 3010 + TenLog10(num, 2 * den)
    ELSE IF num >= den THEN 0
    ELSE TenLog10(2 * num, den) - 3010

\* exp(-time / tau) in thousandths, time in ticks, tau in seconds: the value
\* at the last half time constant reached
ExpTable == <<1000, 607, 368, 223, 135, 82, 50, 30, 18, 11, 7, 4, 2, 1>>
ExpNeg(time, tau) ==
    LET k == (2 * time) \div (tau * TicksPerSec)
    IN  IF k < 0 THEN 1000 ELSE IF k >= Len(ExpTable) THEN 0 ELSE ExpTable[k + 1]

\* the step of the volume knob's dB scale, in millibels
KnobStep == 50

\* helpers::db_to_int: the gain (thousandths of a dB) as whole millibels,
\* `(val * 100.0) as i64` truncating toward zero, then the raw integer of the
\* knob's scale at or below it (alsa::Round::Floor), 0 standing for 0 dB
db_to_int(lvl) ==
    LET mb == IF lvl >= 0 THEN lvl \div 10 ELSE -((-lvl) \div 10)
    IN  mb \div KnobStep

\* helpers::int_to_db: the gain a raw knob integer stands for
int_to_db(raw) == raw * KnobStep * 10

\* SpeakerState::default(): every field 0.0
DefaultState ==
    [t_coil |-> 0, t_magnet |-> 0, t_coil_hyst |-> 0, t_magnet_hyst |-> 0,
     min_gain |-> 0, gain |-> 0]

\* s.min_gain of Speaker::new
MinGainOf(amp) ==
    LET max_dt == t_limit - t_ambient
        \* max_pwr / peak_pwr = (max_dt / (tr_magnet + tr_coil)) / (10^(amp/10) / z_nominal * 2)
        num == max_dt * z_nominal
        den == (tr_magnet + tr_coil) * Pow10Tenth(amp) * 2
    IN  Min(TenLog10(num, den), 0)

\* the SpeakerState that Speaker::new leaves
NewSpeakerState(cold) ==
    LET tc == IF cold THEN (t_limit - t_window) - OneDegree ELSE t_limit
        tm == t_ambient + RoundDiv((tc - t_ambient) * tr_magnet, tr_magnet + tr_coil)
    IN  [DefaultState EXCEPT !.t_coil = tc, !.t_magnet = tm, !.min_gain = MinGainOf(amp_gain)]

\* the configuration file of the model
GoodConfig ==
    [channels |-> channels,
     is_chan |-> [s \in Speakers |-> is_chan(s)],
     vs_chan |-> [s \in Speakers |-> vs_chan(s)],
     t_limit |-> 24, t_window |-> 8, t_ambient |-> 8]

\* a configuration that passes the startup asserts with t_limit - t_window
\* less than one degree above t_ambient
NarrowConfig == [GoodConfig EXCEPT !.t_window = 14]

\* lines 312-314: the message of the first assert of Speaker::new that fails for
\* speaker s under configuration c, or None
SpeakerAsserts(c, s) ==
    IF ~(c.is_chan[s] < c.channels)
    THEN "assertion failed: new_speaker.is_chan < globals.channels"
    ELSE IF ~(c.vs_chan[s] < c.channels)
    THEN "assertion failed: new_speaker.vs_chan < globals.channels"
    ELSE IF ~(c.t_limit - c.t_window > c.t_ambient)
    THEN "assertion failed: new_speaker.t_limit - globals.t_window > globals.t_ambient"
    ELSE None

\* Mixer::new on switches that read back hw = [vs, is] once written true: the
\* message of the assert that fails, or None. Both asserts test the value read
\* back from VSENSE (lines 101-102 and 107-108 both read vs)
MixerNew(hw) ==
    IF ~hw.vs THEN "assertion failed: vs.val.get_boolean(0).unwrap()"
    ELSE IF ~hw.vs THEN "assertion failed: vs.val.get_boolean(0).unwrap()"
    ELSE None

\* Speaker::new for speaker s: Mixer::new first, the asserts last
SpeakerNew(c, hw, s) ==
    IF MixerNew(hw[s]) # None THEN MixerNew(hw[s]) ELSE SpeakerAsserts(c, s)

\* the loop over speaker_names that builds the groups: the message of the first
\* panic, or None
RECURSIVE NewSpeakers(_, _, _)
NewSpeakers(c, hw, names) ==
    IF names = << >> THEN None
    ELSE IF SpeakerNew(c, hw, Head(names)) # None THEN SpeakerNew(c, hw, Head(names))
    ELSE NewSpeakers(c, hw, Tail(names))

\* line 209: assert!(2 * speaker_count <= globals.channels)
\* mutant: the channel count is not checked against the number of speakers
ChannelsAssertOff(c, names) == None

ChannelsAssert(c, names) ==
    IF ~(2 * Len(names) <= c.channels)
    THEN "assertion failed: 2 * speaker_count <= globals.channels"
    ELSE None

\* lines 168-188: whether the startup is a cold boot, exists the flag file's
\* presence, io how try_exists and fs::write go
\* mutant: an absent flag alone makes a cold boot
ColdBootIfAbsent(exists, io) == ~exists

ColdBoot(exists, io) == ~exists /\ io = "ok"
\* whether the flag file exists after the detection
FlagAfter(exists, io) == exists \/ io = "ok"

CoilMsg(s) == IF s = "L" THEN "L: Coil temperature limit exceeded"
              ELSE "R: Coil temperature limit exceeded"
MagnetMsg(s) == IF s = "L" THEN "L: Magnet temperature limit exceeded"
                ELSE "R: Magnet temperature limit exceeded"
PowerMsg(s) == IF s = "L" THEN "L: Negative power, bad ivsense data?"
               ELSE "R: Negative power, bad ivsense data?"

\* `sample[chan] as f32 / 32768.0 * scale`
\* F applied to the value of e, with e computed once (a local binding)
Let(e, F(_)) == CHOOSE y \in {F(x) : x \in {e}} : TRUE

Sense(raw, scale) == RoundDiv(raw * scale, 32768)

\* a * alpha + b * (1 - alpha) with alpha = step / (tau + step), step = 1 / sample_rate
Blend(a, b, tau, rate) ==
    LET den == tau * rate + 1
    IN  RoundDiv(a + b * (den - 1), den)

\* the instantaneous power p = v * i of one sample
SamplePower(s, sample) ==
    Sense(sample[vs_chan(s)], vs_scale) * Sense(sample[is_chan(s)], is_scale)

\* lines 342-346: the two temperatures after one sample of power p
SampleUpdate(st, p, rate) ==
    [st EXCEPT
       !.t_coil = Blend(st.t_magnet + p * tr_coil, st.t_coil, tau_coil, rate),
       !.t_magnet = Blend(t_ambient + p * tr_magnet, st.t_magnet, tau_magnet, rate)]


\* mutant: the coil check is missing
LimitCheckMagnetOnly(s, st) ==
    IF st.t_magnet > t_limit + t_headroom THEN MagnetMsg(s) ELSE None

\* lines 348-359: the message of the temperature check that fires on st, or None
LimitCheck(s, st) ==
    IF st.t_coil > t_limit + t_headroom THEN CoilMsg(s)
    ELSE IF st.t_magnet > t_limit + t_headroom THEN MagnetMsg(s)
    ELSE None

\* the sample loop of run_model from sample k on: the state it leaves, the
\* power sum, and the panic message if one of the two checks fired
RECURSIVE RunSamples(_, _, _, _, _, _)
SampleChecked(s, st1, buf, rate, k, pwr_sum) ==
    IF LimitCheck(s, st1) # None
    THEN [st |-> st1, pwr_sum |-> pwr_sum, panic |-> LimitCheck(s, st1)]
    ELSE Let(pwr_sum + SamplePower(s, buf[k]),
             LAMBDA sum : RunSamples(s, st1, buf, rate, k + 1, sum))

RunSamples(s, st, buf, rate, k, pwr_sum) ==
    IF k > Len(buf) THEN [st |-> st, pwr_sum |-> pwr_sum, panic |-> None]
    ELSE Let(SampleUpdate(st, SamplePower(s, buf[k]), rate),
             LAMBDA st1 : SampleChecked(s, st1, buf, rate, k, pwr_sum))


\* mutant: a peak hold that never bleeds down
HystNoBleed(hyst, t) == Max(hyst, F32(t))

\* the hysteresis clamp of run_model
Hyst(hyst, t) == Min(Max(hyst, F32(t)), F32(t) + t_hysteresis)

\* line 394: -0.01 dB, a gain above it is snapped to 0
SnapAbove == -10

\* mutant: a small gain is not snapped to 0
GainOfNoSnap(min_gain, temp) ==
    RoundDiv(min_gain * Max(temp - (t_limit - t_window), 0), t_window)

\* lines 389-396: the gain run_model computes from the limiter input
GainOf(min_gain, temp) ==
    IF RoundDiv(min_gain * Max(temp - (t_limit - t_window), 0), t_window) > SnapAbove THEN 0
    ELSE RoundDiv(min_gain * Max(temp - (t_limit - t_window), 0), t_window)

\* lines 378-385: the state with both hysteresis values updated
HystUpdate(st) ==
    [st EXCEPT !.t_coil_hyst = Hyst(st.t_coil_hyst, st.t_coil),
               !.t_magnet_hyst = Hyst(st.t_magnet_hyst, st.t_magnet)]

\* lines 387-403: the gain from the updated hysteresis values, stored and returned
GainUpdate(st) ==
    [st |-> [st EXCEPT !.gain = GainOf(st.min_gain, Max(st.t_coil_hyst, st.t_magnet_hyst))],
     gain |-> GainOf(st.min_gain, Max(st.t_coil_hyst, st.t_magnet_hyst)),
     panic |-> None]

\* lines 364-403: run_model after the sample loop returned r over n samples
AfterSamples(s, r, n) ==
    IF r.panic # None THEN [st |-> r.st, gain |-> 0, panic |-> r.panic]
    ELSE IF 100 * r.pwr_sum < -n THEN [st |-> r.st, gain |-> 0, panic |-> PowerMsg(s)]
    ELSE Let(HystUpdate(r.st), GainUpdate)

\* Speaker::run_model: the state it leaves, the gain it returns, and the
\* panic message when it panics instead of returning
run_model(s, st, buf, rate) ==
    Let(RunSamples(s, st, buf, rate, 1, 0), LAMBDA r : AfterSamples(s, r, Len(buf)))

\* mutant: the catch-up also pulls the hysteresis values down to ambient
SkipModelAndHyst(st, time) ==
    [st EXCEPT !.t_coil = t_ambient, !.t_magnet = t_ambient,
               !.t_coil_hyst = t_ambient, !.t_magnet_hyst = t_ambient]

\* Speaker::skip_model, time in ticks
skip_model(st, time) ==
    LET tc == st.t_coil - t_ambient
        tm == st.t_magnet - t_ambient
        \* eta = 1 / (1 - tau_coil / tau_magnet) = eta_num / eta_den
        eta_num == tau_magnet
        eta_den == tau_magnet - tau_coil
        ec == ExpNeg(time, tau_coil)
        em == ExpNeg(time, tau_magnet)
    IN  [st EXCEPT
           !.t_coil = t_ambient
               + RoundDiv(ec * (tc * eta_den - eta_num * tm) + em * tm * eta_num,
                          1000 * eta_den),
           !.t_magnet = t_ambient + RoundDiv(em * tm, 1000)]

(***************************************************************************)
(* Blackbox (src/blackbox.rs).                                             *)
(***************************************************************************)
MAX_BLOCKS == 330

\* mutant: reset leaves the ring as it is
resetKeepsBlocks(blks) == blks

\* Blackbox::reset
reset(blks) == << >>

\* mutant: the ring is trimmed only once it is over capacity
EvictLate(blks) == IF Len(blks) > MAX_BLOCKS THEN Tail(blks) ELSE blks

\* lines 43-45: drop the oldest blocks while the ring is full
RECURSIVE Evict(_)
Evict(blks) == IF Len(blks) >= MAX_BLOCKS THEN Evict(Tail(blks)) ELSE blks

\* mutant: the new block goes in front of the ring
pushInFront(blks, rate, data, state) ==
    <<[sample_rate |-> rate, state |-> state, data |-> data]>> \o Evict(blks)

\* Blackbox::push
push(blks, rate, data, state) ==
    Append(Evict(blks), [sample_rate |-> rate, state |-> state, data |-> data])

\* the metadata object preserve builds
MetaOf(blks, reason) ==
    [message |-> reason,
     sample_rate |-> blks[1].sample_rate,
     channels |-> channels,
     blocks |-> [b \in 1..Len(blks) |->
                    [sample_rate |-> blks[b].sample_rate,
                     sample_count |-> Len(blks[b].data),
                     speakers |-> blks[1].state]]]

(***************************************************************************)
(* The supervisor (src/main.rs).                                           *)
(***************************************************************************)
VARIABLES
    pc,              \* where main is
    sigquit,         \* the flag the SIGQUIT handler sets
    flagfile,        \* whether FLAGFILE exists
    cold_boot,
    bb_enabled,      \* args.blackbox_path is given
    sig_at,          \* where main was when the SIGQUIT flag was set ("none" before)
    sig_unlocks,     \* unlock sentinel writes since the SIGQUIT flag was set
    blocks,          \* blackbox.blocks
    max_reduction,   \* args.max_reduction: << >> or <<thousandths of a dB>>
    group_of,        \* the group key of each Speaker section
    groups,          \* group index -> [speakers, gain]
    spk,             \* the SpeakerState of each speaker
    level,           \* the gain last passed to set_lvl for each speaker's volume knob
    written,         \* the speakers whose volume knob main has written
    sample_rate,
    cur_sample_rate,
    rate_knob_prev,  \* sample_rate as it was before this iteration's sample rate step
    elapsed,         \* now - last_update, in ticks
    dt,
    skip,            \* <<the argument of this iteration's skip_model calls>>, << >> without
    buf,             \* buf_read, a sequence of samples (one value per channel)
    once_nominal,
    unlock_elem,     \* the value of the Speaker Volume Unlock knob
    panic,           \* the payload of the panic being unwound
    reasons,         \* the reasons preserve was called with, in order
    preserve_result, \* what the last preserve returned
    metafiles,       \* the .meta files written
    iter,            \* loop iterations started
    iter_unlocks,    \* sentinel writes in the current iteration
    unlock_writes,   \* sentinel writes in all
    sig_in_read,     \* the flag was set while this iteration was in the capture read
    ran,             \* speakers whose run_model returned in this iteration
    read_result,     \* how this iteration's capture read returned
    pcm_opens,       \* the capture PCMs opened so far
    sense_hw,        \* what each speaker's VSENSE / ISENSE switch reads back once set
    flag_io,         \* how try_exists and fs::write on the flag file go
    boots,           \* how many times main has been started
    lvl_writes,      \* set_lvl calls per speaker in the current iteration (0: startup)
    pushes           \* blackbox pushes since the blackbox was last empty by reset

vars == <<pc, sigquit, flagfile, cold_boot, bb_enabled, sig_at, sig_unlocks, blocks, max_reduction,
          group_of, groups, spk, level, written, sample_rate, cur_sample_rate,
          rate_knob_prev, elapsed, dt, skip, buf, once_nominal, unlock_elem, panic,
          reasons, preserve_result, metafiles, iter, iter_unlocks, unlock_writes,
          sig_in_read, ran, read_result, pcm_opens, cfg, sense_hw, flag_io, boots,
          lvl_writes,
          pushes>>

NoPanic == [type |-> "none", msg |-> ""]
\* panic!("literal") carries a &'static str, a formatted panic!/unwrap/expect a String
StrPanic(m) == [type |-> "str", msg |-> m]
StringPanic(m) == [type |-> "String", msg |-> m]

\* the value of the volume knob under the kernel's cap, before main writes it
KernelLevel == -20000

\* values the Speaker Sample Rate knob reports, in Hz
RateVals == {0, 1, 2}
\* wall time one wait in the capture read can take, in ticks
ElapseVals == {1, 8, 9}
\* the errors of the capture read
Errnos == {"ESTRPIPE", "EINTR", "EIO"}
\* the group keys of the config files modelled
Layouts == {[s \in Speakers |-> 0], [s \in Speakers |-> IF s = "L" THEN 0 ELSE 1],
            [s \in Speakers |-> 1]}
\* --max-reduction values
MaxReductions == {<< >>, <<3000>>}

Silent == [c \in 0..(channels - 1) |-> 0]
\* one sample with the sense channels of the speakers in S at half scale, the
\* current of those in R reversed
Drive(S, R) ==
    [c \in 0..(channels - 1) |->
        IF \E s \in S : c = vs_chan(s) THEN 16384
        ELSE IF \E s \in S : c = is_chan(s)
             THEN (IF \E s \in R : c = is_chan(s) THEN -16384 ELSE 16384)
        ELSE 0]
\* the frames a capture read returns: 1..period samples each
Frames ==
    {<<Silent, Silent>>,
     <<Drive({"L"}, {})>>,
     <<Drive(Speakers, {})>>,
     <<Drive(Speakers, {}), Drive(Speakers, {})>>,
     <<Drive({"L"}, {"L"})>>}

\* the ways startup can fail that are modelled
StartupFaults == {"none", "open_card", "set_lvl"}
\* how the flag file operations go: both succeed, try_exists fails, fs::write fails
FlagOutcomes == {"ok", "test_fails", "write_fails"}

\* configuration files: the good one, four that break one startup assert
\* each, and the narrow one
Configs ==
    {GoodConfig,
     [GoodConfig EXCEPT !.is_chan["R"] = channels],
     [GoodConfig EXCEPT !.vs_chan["L"] = channels + 1],
     [GoodConfig EXCEPT !.channels = 3, !.is_chan["R"] = 1],
     [GoodConfig EXCEPT !.t_window = GoodConfig.t_limit - GoodConfig.t_ambient],
     NarrowConfig}

SenseOn == [s \in Speakers |-> [vs |-> TRUE, is |-> TRUE]]
\* what the sense switches can read back
SenseOutcomes ==
    {SenseOn,
     [SenseOn EXCEPT !["L"].vs = FALSE],
     [SenseOn EXCEPT !["R"].is = FALSE],
     [SenseOn EXCEPT !["L"].is = FALSE, !["R"].vs = FALSE]}

NoWrites == [s \in Speakers |-> 0]

\* the keys of a BTreeMap in iteration order
RECURSIVE Sorted(_)
Sorted(S) ==
    IF S = {} THEN << >>
    ELSE LET m == CHOOSE x \in S : \A y \in S : x <= y
         IN  <<m>> \o Sorted(S \ {m})

RECURSIVE SelectSeq2(_, _)
\* the speakers of group g, in the order they were pushed
SelectSeq2(names, g) ==
    IF names = << >> THEN << >>
    ELSE (IF group_of[Head(names)] = g THEN <<Head(names)>> ELSE << >>)
         \o SelectSeq2(Tail(names), g)

\* mutant: every group starts with gain 0, on a warm boot too
BuildGroupsAtZero(gain) ==
    [g \in {group_of[s] : s \in Speakers} |->
        [speakers |-> SelectSeq2(SpeakerNames, g), gain |-> 0]]

\* the group map main builds, every group with the given gain
BuildGroups(gain) ==
    [g \in {group_of[s] : s \in Speakers} |->
        [speakers |-> SelectSeq2(SpeakerNames, g), gain |-> gain]]

\* the state before main runs, with the configuration file, the sense switches
\* and the flag file operations drawn from the sets given
Start(at, configs, senses, flag_ios) ==
    /\ cfg \in configs
    /\ pc = at
    /\ sigquit = FALSE
    /\ flagfile \in BOOLEAN
    /\ cold_boot = FALSE
    /\ bb_enabled \in BOOLEAN
    /\ sig_at = "none"
    /\ sig_unlocks = 0
    /\ blocks = << >>
    /\ max_reduction \in MaxReductions
    /\ group_of \in Layouts
    /\ groups = << >>
    /\ spk = [s \in Speakers |-> DefaultState]
    /\ level = [s \in Speakers |-> KernelLevel]
    /\ written = {}
    /\ sample_rate = 0
    /\ cur_sample_rate = 0
    /\ rate_knob_prev = 0
    /\ elapsed = 0
    /\ dt = 0
    /\ skip = << >>
    /\ buf = << >>
    /\ once_nominal = FALSE
    /\ unlock_elem = 0
    /\ panic = NoPanic
    /\ reasons = << >>
    /\ preserve_result = "none"
    /\ metafiles = << >>
    /\ iter = 0
    /\ iter_unlocks = 0
    /\ unlock_writes = 0
    /\ sig_in_read = FALSE
    /\ ran = {}
    /\ read_result = "none"
    /\ pcm_opens = 0
    /\ sense_hw \in senses
    /\ flag_io \in flag_ios
    /\ boots = 0
    /\ lvl_writes = NoWrites
    /\ pushes = 0

\* a valid configuration, working sense switches and flag file operations
Init == Start("start", {GoodConfig}, {SenseOn}, {"ok"})


\* mutant: the panic is swallowed and the loop goes on
RaiseAndResume(p) ==
    /\ pc' = "top"
    /\ panic' = p

\* a panic starts unwinding out of the closure
Raise(p) ==
    /\ pc' = "panic"
    /\ panic' = p

\* where a signal falls: during startup, between the top of an iteration and
\* its check after the read, or after that check
SigPhase(at) ==
    IF at = "start" THEN "startup"
    ELSE IF at \in {"top", "read", "postread"} THEN "early"
    ELSE "late"

\* the count of sentinel writes since the flag was set, after a step
SigUnlocks ==
    sig_unlocks' = IF sigquit /\ unlock_writes' # unlock_writes
                   THEN sig_unlocks + 1 ELSE sig_unlocks

\* the SIGQUIT handler, while the closure of main runs (the flag is not read
\* once a panic unwinds): it only sets the flag
Signal ==
    /\ ~sigquit
    /\ pc \notin {"panic", "exit"}
    /\ sigquit' = TRUE
    /\ sig_in_read' = (pc = "read")
    /\ sig_at' = SigPhase(pc)
    /\ UNCHANGED <<pc, flagfile, boots, cold_boot, bb_enabled, sig_unlocks, cfg, sense_hw, flag_io, blocks, pushes, max_reduction, group_of,
                   groups, spk, level, written, lvl_writes, sample_rate, cur_sample_rate,
                   rate_knob_prev, elapsed, dt, skip, buf, once_nominal, unlock_elem,
                   panic, reasons, preserve_result, metafiles, iter, iter_unlocks,
                   unlock_writes, ran, read_result, pcm_opens>>

\* main from the start of the closure to the loop
Startup ==
    /\ pc = "start"
    /\ boots' = boots + 1
    /\ \E fault \in StartupFaults, rate \in RateVals :
        IF fault = "open_card"
        THEN /\ Raise(StringPanic("Could not open sound card!"))
             /\ UNCHANGED <<flagfile, cold_boot, groups, spk, level, written, lvl_writes,
                            sample_rate, unlock_elem, unlock_writes, pcm_opens>>
        ELSE
          /\ flagfile' = FlagAfter(flagfile, flag_io)
          /\ cold_boot' = ColdBoot(flagfile, flag_io)
          /\ IF NewSpeakers(cfg, sense_hw, SpeakerNames) # None
             THEN /\ Raise(StrPanic(NewSpeakers(cfg, sense_hw, SpeakerNames)))
                  /\ UNCHANGED <<groups, spk, level, written, lvl_writes, sample_rate,
                                 unlock_elem, unlock_writes, pcm_opens>>
             ELSE IF ChannelsAssert(cfg, SpeakerNames) # None
             THEN /\ Raise(StrPanic(ChannelsAssert(cfg, SpeakerNames)))
                  /\ UNCHANGED <<groups, spk, level, written, lvl_writes, sample_rate,
                                 unlock_elem, unlock_writes, pcm_opens>>
             ELSE
               /\ spk' = [s \in Speakers |-> NewSpeakerState(cold_boot')]
               /\ pcm_opens' = pcm_opens + 1
               /\ sample_rate' = rate
               /\ unlock_elem' = UNLOCK_MAGIC
               /\ unlock_writes' = unlock_writes + 1
               /\ IF cold_boot' /\ fault = "set_lvl"
                  THEN \* the first set_lvl fails: no knob written, no group.gain set
                       /\ Raise(StringPanic("Could not write elem value"))
                       /\ UNCHANGED <<groups, level, written, lvl_writes>>
                  ELSE /\ pc' = "top"
                       /\ panic' = panic
                       /\ groups' = BuildGroups(IF cold_boot' THEN 0 ELSE -999000)
                       /\ level' = IF cold_boot' THEN [s \in Speakers |-> 0] ELSE level
                       /\ written' = IF cold_boot' THEN Speakers ELSE written
                       /\ lvl_writes' = IF cold_boot' THEN [s \in Speakers |-> 1]
                                        ELSE lvl_writes
    /\ SigUnlocks
    /\ UNCHANGED <<sigquit, bb_enabled, sig_at, cfg, sense_hw, flag_io, blocks, pushes, max_reduction,
                   group_of, cur_sample_rate, rate_knob_prev, elapsed, dt, skip, buf,
                   once_nominal, reasons, preserve_result, metafiles, iter, iter_unlocks,
                   sig_in_read, ran, read_result>>

\* line 252: the flag check at the top of the loop
LoopTop ==
    /\ pc = "top"
    /\ iter < MaxIter
    /\ iter' = iter + 1
    /\ iter_unlocks' = 0
    /\ sig_in_read' = FALSE
    /\ ran' = {}
    /\ skip' = << >>
    /\ read_result' = "none"
    /\ lvl_writes' = NoWrites
    /\ IF sigquit THEN Raise(StrPanic("SIGQUIT received"))
       ELSE pc' = "read" /\ panic' = panic
    /\ UNCHANGED <<sigquit, flagfile, boots, cold_boot, bb_enabled, sig_at, sig_unlocks, cfg, sense_hw, flag_io, blocks, pushes, max_reduction,
                   group_of, groups, spk, level, written, sample_rate, cur_sample_rate,
                   rate_knob_prev, elapsed, dt, buf, once_nominal, unlock_elem, reasons,
                   preserve_result, metafiles, unlock_writes, pcm_opens>>

\* lines 256-291: the capture read returns data
ReadOk ==
    /\ pc = "read"
    /\ \E d \in ElapseVals, frame \in Frames :
        /\ elapsed' = Min(elapsed + d, MaxElapsed)
        /\ buf' = frame
    /\ read_result' = "Ok"
    /\ pc' = "postread"
    /\ UNCHANGED <<sigquit, flagfile, boots, cold_boot, bb_enabled, sig_at, sig_unlocks, cfg, sense_hw, flag_io, blocks, pushes, max_reduction,
                   group_of, groups, spk, level, written, lvl_writes, sample_rate, cur_sample_rate,
                   rate_knob_prev, dt, skip, once_nominal, unlock_elem, panic, reasons,
                   preserve_result, metafiles, iter, iter_unlocks, unlock_writes,
                   sig_in_read, ran, pcm_opens>>


\* mutant: an interrupted read is taken for a suspend too
IsSuspendOrInterrupted(e) == e \in {"ESTRPIPE", "EINTR"}

\* line 266: the error that means the stream was suspended
IsSuspend(e) == e = "ESTRPIPE"

\* mutant: reopening the PCM after a suspend restarts the clock
ReadErrRestartsClock ==
    /\ pc = "read"
    /\ \E d \in ElapseVals, e \in Errnos, reopen \in BOOLEAN :
        /\ elapsed' = IF IsSuspend(e) THEN 0 ELSE Min(elapsed + d, MaxElapsed)
        /\ read_result' = e
        /\ IF sigquit
           THEN Raise(StrPanic("SIGQUIT received")) /\ UNCHANGED pcm_opens
           ELSE IF IsSuspend(e)
                THEN IF reopen
                     THEN pc' = "top" /\ panic' = panic /\ pcm_opens' = pcm_opens + 1
                     ELSE /\ Raise(StringPanic("called Result::unwrap() on an Err value"))
                          /\ UNCHANGED pcm_opens
           ELSE /\ Raise(StringPanic("called Result::unwrap() on an Err value"))
                /\ UNCHANGED pcm_opens
    /\ UNCHANGED <<sigquit, flagfile, boots, cold_boot, bb_enabled, sig_at, sig_unlocks, cfg, sense_hw, flag_io, blocks, pushes, max_reduction,
                   group_of, groups, spk, level, written, lvl_writes, sample_rate, cur_sample_rate,
                   rate_knob_prev, dt, skip, buf, once_nominal, unlock_elem, reasons,
                   preserve_result, metafiles, iter, iter_unlocks, unlock_writes,
                   sig_in_read, ran>>

\* lines 256-291: the capture read returns an error; reopen is whether open_pcm
\* and io_i16 succeed when the PCM is reopened
ReadErr ==
    /\ pc = "read"
    /\ \E d \in ElapseVals, e \in Errnos, reopen \in BOOLEAN :
        /\ elapsed' = Min(elapsed + d, MaxElapsed)
        /\ read_result' = e
        /\ IF sigquit
           THEN Raise(StrPanic("SIGQUIT received")) /\ UNCHANGED pcm_opens
           ELSE IF IsSuspend(e)
                THEN IF reopen
                     THEN pc' = "top" /\ panic' = panic /\ pcm_opens' = pcm_opens + 1
                     ELSE /\ Raise(StringPanic("called Result::unwrap() on an Err value"))
                          /\ UNCHANGED pcm_opens
           ELSE /\ Raise(StringPanic("called Result::unwrap() on an Err value"))
                /\ UNCHANGED pcm_opens
    /\ UNCHANGED <<sigquit, flagfile, boots, cold_boot, bb_enabled, sig_at, sig_unlocks, cfg, sense_hw, flag_io, blocks, pushes, max_reduction,
                   group_of, groups, spk, level, written, lvl_writes, sample_rate, cur_sample_rate,
                   rate_knob_prev, dt, skip, buf, once_nominal, unlock_elem, reasons,
                   preserve_result, metafiles, iter, iter_unlocks, unlock_writes,
                   sig_in_read, ran>>


\* mutant: no flag check after a read that returned data
PostReadNoCheck ==
    /\ pc = "postread"
    /\ pc' = "rate"
    /\ UNCHANGED <<sigquit, flagfile, boots, cold_boot, bb_enabled, sig_at, sig_unlocks, cfg, sense_hw, flag_io, blocks, pushes, max_reduction,
                   group_of, groups, spk, level, written, lvl_writes, sample_rate, cur_sample_rate,
                   rate_knob_prev, elapsed, dt, skip, buf, once_nominal, unlock_elem,
                   panic, reasons, preserve_result, metafiles, iter, iter_unlocks,
                   unlock_writes, sig_in_read, ran, read_result, pcm_opens>>

\* lines 293-299: the flag check after a read that returned data
PostRead ==
    /\ pc = "postread"
    /\ IF sigquit THEN Raise(StrPanic("SIGQUIT received"))
       ELSE pc' = "rate" /\ panic' = panic
    /\ UNCHANGED <<sigquit, flagfile, boots, cold_boot, bb_enabled, sig_at, sig_unlocks, cfg, sense_hw, flag_io, blocks, pushes, max_reduction,
                   group_of, groups, spk, level, written, lvl_writes, sample_rate, cur_sample_rate,
                   rate_knob_prev, elapsed, dt, skip, buf, once_nominal, unlock_elem,
                   reasons, preserve_result, metafiles, iter, iter_unlocks,
                   unlock_writes, sig_in_read, ran, read_result, pcm_opens>>


\* mutant: a zero reading is stored like any other
NewRateAny(cur, rate) == IF cur # rate THEN cur ELSE rate

\* lines 305-311: the stored sample rate after the knob read cur
NewRate(cur, rate) == IF cur # 0 /\ cur # rate THEN cur ELSE rate

\* lines 303-315: read the Speaker Sample Rate knob; ok is whether elem_read succeeds
SampleRateStep ==
    /\ pc = "rate"
    /\ rate_knob_prev' = sample_rate
    /\ \E ok \in BOOLEAN, cur \in RateVals :
        IF ~ok
        THEN /\ Raise(StringPanic("Could not read elem value"))
             /\ UNCHANGED <<cur_sample_rate, sample_rate, blocks, pushes>>
        ELSE
          /\ cur_sample_rate' = cur
          /\ sample_rate' = NewRate(cur, sample_rate)
          /\ blocks' = IF sample_rate' # sample_rate /\ bb_enabled
                       THEN reset(blocks) ELSE blocks
          /\ pushes' = IF sample_rate' # sample_rate /\ bb_enabled THEN 0 ELSE pushes
          /\ IF sample_rate' = 0 THEN Raise(StrPanic("Invalid sample rate"))
             ELSE pc' = "catchup" /\ panic' = panic
    /\ UNCHANGED <<sigquit, flagfile, boots, cold_boot, bb_enabled, sig_at, sig_unlocks, cfg, sense_hw, flag_io, max_reduction, group_of,
                   groups, spk, level, written, lvl_writes, elapsed, dt, skip, buf, once_nominal,
                   unlock_elem, reasons, preserve_result, metafiles, iter, iter_unlocks,
                   unlock_writes, sig_in_read, ran, read_result, pcm_opens>>

\* period / sample_rate in ticks
Pt(rate) == (period * TicksPerSec) \div rate


\* mutant: the catch-up already at exactly four periods
NeedCatchUpAtFour(d, rate) == d >= 4 * Pt(rate)

\* line 323: whether d ticks of wall time call for the catch-up
NeedCatchUp(d, rate) == d > 4 * Pt(rate)

\* lines 317-332: the wall time since the last update and the catch-up
CatchUp ==
    /\ pc = "catchup"
    /\ dt' = elapsed
    /\ IF ~(dt' > 0)
       THEN /\ Raise(StrPanic("assertion failed: dt > 0f64"))
            /\ UNCHANGED <<spk, blocks, pushes, skip, elapsed>>
       ELSE
         /\ IF NeedCatchUp(dt', sample_rate)
            THEN /\ skip' = <<dt' - Pt(sample_rate)>>
                 /\ spk' = [s \in Speakers |-> skip_model(spk[s], dt' - Pt(sample_rate))]
                 /\ blocks' = IF bb_enabled THEN reset(blocks) ELSE blocks
                 /\ pushes' = IF bb_enabled THEN 0 ELSE pushes
            ELSE UNCHANGED <<spk, blocks, pushes, skip>>
         /\ elapsed' = 0
         /\ pc' = "push"
         /\ panic' = panic
    /\ UNCHANGED <<sigquit, flagfile, boots, cold_boot, bb_enabled, sig_at, sig_unlocks, cfg, sense_hw, flag_io, max_reduction, group_of,
                   groups, level, written, lvl_writes, sample_rate, cur_sample_rate, rate_knob_prev,
                   buf, once_nominal, unlock_elem, reasons, preserve_result, metafiles,
                   iter, iter_unlocks, unlock_writes, sig_in_read, ran, read_result, pcm_opens>>

\* mutant: the snapshot takes the groups that exist
BlackboxPushPresentGroups ==
    /\ pc = "push"
    /\ IF bb_enabled
       THEN LET max_idx == CHOOSE m \in DOMAIN groups : \A g \in DOMAIN groups : g <= m
            IN  IF \E i \in 0..max_idx : i \notin 0..max_idx
                THEN \* groups[&i] of a missing key
                     /\ Raise(StrPanic("no entry found for key"))
                     /\ UNCHANGED <<blocks, pushes>>
                ELSE /\ blocks' = push(blocks, sample_rate, buf,
                                       [i \in DOMAIN groups |->
                                           [k \in 1..Len(groups[i].speakers) |->
                                               spk[groups[i].speakers[k]]]])
                     /\ pushes' = pushes + 1
                     /\ pc' = "model"
                     /\ panic' = panic
       ELSE /\ pc' = "model"
            /\ UNCHANGED <<blocks, pushes, panic>>
    /\ UNCHANGED <<sigquit, flagfile, boots, cold_boot, bb_enabled, sig_at, sig_unlocks, cfg, sense_hw, flag_io, max_reduction, group_of,
                   groups, spk, level, written, lvl_writes, sample_rate, cur_sample_rate,
                   rate_knob_prev, elapsed, dt, skip, buf, once_nominal, unlock_elem,
                   reasons, preserve_result, metafiles, iter, iter_unlocks,
                   unlock_writes, sig_in_read, ran, read_result, pcm_opens>>

\* lines 334-340: snapshot the states of groups 0..=max_idx and push the frame
BlackboxPush ==
    /\ pc = "push"
    /\ IF bb_enabled
       THEN LET max_idx == CHOOSE m \in DOMAIN groups : \A g \in DOMAIN groups : g <= m
            IN  IF \E i \in 0..max_idx : i \notin DOMAIN groups
                THEN \* groups[&i] of a missing key
                     /\ Raise(StrPanic("no entry found for key"))
                     /\ UNCHANGED <<blocks, pushes>>
                ELSE /\ blocks' = push(blocks, sample_rate, buf,
                                       [i \in 0..max_idx |->
                                           [k \in 1..Len(groups[i].speakers) |->
                                               spk[groups[i].speakers[k]]]])
                     /\ pushes' = pushes + 1
                     /\ pc' = "model"
                     /\ panic' = panic
       ELSE /\ pc' = "model"
            /\ UNCHANGED <<blocks, pushes, panic>>
    /\ UNCHANGED <<sigquit, flagfile, boots, cold_boot, bb_enabled, sig_at, sig_unlocks, cfg, sense_hw, flag_io, max_reduction, group_of,
                   groups, spk, level, written, lvl_writes, sample_rate, cur_sample_rate,
                   rate_knob_prev, elapsed, dt, skip, buf, once_nominal, unlock_elem,
                   reasons, preserve_result, metafiles, iter, iter_unlocks,
                   unlock_writes, sig_in_read, ran, read_result, pcm_opens>>

\* acc = [spk, gain, panic, ran] after run_model on speaker s returned r
Reduce(acc, s, r) ==
    [spk |-> [acc.spk EXCEPT ![s] = r.st],
     gain |-> IF r.panic # None THEN acc.gain
              ELSE IF acc.gain = << >> THEN <<r.gain>>
              ELSE <<Min(acc.gain[1], r.gain)>>,
     panic |-> r.panic,
     ran |-> IF r.panic = None THEN acc.ran \cup {s} ELSE acc.ran]

\* lines 344-349: run_model over the speakers of one group, in order, keeping
\* the minimum; acc = [spk, gain, panic, ran], gain << >> before the first
RECURSIVE RunSpeakers(_, _)
RunSpeakers(names, acc) ==
    IF names = << >> \/ acc.panic # None THEN acc
    ELSE Let(run_model(Head(names), acc.spk[Head(names)], buf, sample_rate),
             LAMBDA r : Let(Reduce(acc, Head(names), r),
                            LAMBDA next : RunSpeakers(Tail(names), next)))

\* the speakers of names before fail_at (all of them when it is not among them)
RECURSIVE Before(_, _)
Before(names, fail_at) ==
    IF names = << >> \/ Head(names) = fail_at THEN {}
    ELSE {Head(names)} \cup Before(Tail(names), fail_at)

InSeq(x, names) == \E k \in 1..Len(names) : names[k] = x

\* mutant: the gain is recorded for the group but written to no knob
CommitRecordOnly(acc, g, gain, fail_at) ==
    IF gain = acc.groups[g].gain THEN acc
    ELSE [acc EXCEPT !.groups[g].gain = gain]

\* mutant: the gain is written whether or not it changed
CommitAlways(acc, g, gain, fail_at) ==
    IF InSeq(fail_at, acc.groups[g].speakers)
    THEN [acc EXCEPT
            !.level = [s \in Speakers |->
                          IF s \in Before(acc.groups[g].speakers, fail_at)
                          THEN gain ELSE acc.level[s]],
            !.written = acc.written \cup Before(acc.groups[g].speakers, fail_at),
            !.lvl_writes = [s \in Speakers |->
                               IF s \in Before(acc.groups[g].speakers, fail_at)
                               THEN acc.lvl_writes[s] + 1 ELSE acc.lvl_writes[s]],
            !.panic = StringPanic("Could not write elem value")]
    ELSE [acc EXCEPT
            !.level = [s \in Speakers |->
                          IF InSeq(s, acc.groups[g].speakers) THEN gain ELSE acc.level[s]],
            !.written = acc.written \cup {s \in Speakers : InSeq(s, acc.groups[g].speakers)},
            !.lvl_writes = [s \in Speakers |->
                               IF InSeq(s, acc.groups[g].speakers)
                               THEN acc.lvl_writes[s] + 1 ELSE acc.lvl_writes[s]],
            !.groups[g].gain = gain]

\* lines 350-358: the commit of gain to group g; fail_at is the speaker whose
\* set_lvl fails if it is attempted ("none": no write fails)
Commit(acc, g, gain, fail_at) ==
    IF gain = acc.groups[g].gain THEN acc
    ELSE IF InSeq(fail_at, acc.groups[g].speakers)
    THEN [acc EXCEPT
            !.level = [s \in Speakers |->
                          IF s \in Before(acc.groups[g].speakers, fail_at)
                          THEN gain ELSE acc.level[s]],
            !.written = acc.written \cup Before(acc.groups[g].speakers, fail_at),
            !.lvl_writes = [s \in Speakers |->
                               IF s \in Before(acc.groups[g].speakers, fail_at)
                               THEN acc.lvl_writes[s] + 1 ELSE acc.lvl_writes[s]],
            !.panic = StringPanic("Could not write elem value")]
    ELSE [acc EXCEPT
            !.level = [s \in Speakers |->
                          IF InSeq(s, acc.groups[g].speakers) THEN gain ELSE acc.level[s]],
            !.written = acc.written \cup {s \in Speakers : InSeq(s, acc.groups[g].speakers)},
            !.lvl_writes = [s \in Speakers |->
                               IF InSeq(s, acc.groups[g].speakers)
                               THEN acc.lvl_writes[s] + 1 ELSE acc.lvl_writes[s]],
            !.groups[g].gain = gain]

\* mutant: the threshold applies before the gains were ever nominal
NominalNoLatch(acc, gain) ==
    IF acc.panic.type # "none" THEN acc
    ELSE IF max_reduction # << >> /\ gain < -max_reduction[1]
    THEN [acc EXCEPT !.all_nominal = acc.all_nominal /\ gain = 0,
                     !.panic = StrPanic("Gain reduction exceeded threshold")]
    ELSE [acc EXCEPT !.all_nominal = acc.all_nominal /\ gain = 0]

\* lines 359-366: all_nominal and the max-reduction check for group gain
Nominal(acc, gain) ==
    IF acc.panic.type # "none" THEN acc
    ELSE IF max_reduction # << >> /\ once_nominal /\ gain < -max_reduction[1]
    THEN [acc EXCEPT !.all_nominal = acc.all_nominal /\ gain = 0,
                     !.panic = StrPanic("Gain reduction exceeded threshold")]
    ELSE [acc EXCEPT !.all_nominal = acc.all_nominal /\ gain = 0]

\* lines 344-366: the body of the loop for group g, r what RunSpeakers returned
GroupBody(acc, g, r, fail_at) ==
    IF r.panic # None
    THEN [acc EXCEPT !.spk = r.spk, !.ran = r.ran, !.panic = StringPanic(r.panic)]
    ELSE Let(Commit([acc EXCEPT !.spk = r.spk, !.ran = r.ran], g, r.gain[1], fail_at),
             LAMBDA committed : Nominal(committed, r.gain[1]))

\* lines 343-367: the loop over the groups idxs;
\* acc = [spk, groups, level, written, lvl_writes, all_nominal, panic, ran]
RECURSIVE GroupLoop(_, _, _)
GroupLoop(idxs, acc, fail_at) ==
    IF idxs = << >> \/ acc.panic.type # "none" THEN acc
    ELSE Let(RunSpeakers(acc.groups[Head(idxs)].speakers,
                         [spk |-> acc.spk, gain |-> << >>, panic |-> None, ran |-> acc.ran]),
             LAMBDA r : Let(GroupBody(acc, Head(idxs), r, fail_at),
                            LAMBDA next : GroupLoop(Tail(idxs), next, fail_at)))

\* the state of main after the group loop returned r
GroupsDone(r) ==
    /\ spk' = r.spk
    /\ groups' = r.groups
    /\ level' = r.level
    /\ written' = r.written
    /\ lvl_writes' = r.lvl_writes
    /\ ran' = r.ran
    /\ IF r.panic.type # "none"
       THEN Raise(r.panic) /\ UNCHANGED once_nominal
       ELSE /\ once_nominal' = (once_nominal \/ r.all_nominal)
            /\ pc' = "unlock"
            /\ panic' = panic

\* lines 342-371: run the model on the frame and commit the group gains
RunModels ==
    /\ pc = "model"
    /\ \E fail_at \in Speakers \cup {"none"} :
        \E r \in {GroupLoop(Sorted(DOMAIN groups),
                            [spk |-> spk, groups |-> groups, level |-> level,
                             written |-> written, lvl_writes |-> lvl_writes,
                             all_nominal |-> TRUE,
                             panic |-> NoPanic, ran |-> ran],
                            fail_at)} :
            GroupsDone(r)
    /\ UNCHANGED <<sigquit, flagfile, boots, cold_boot, bb_enabled, sig_at, sig_unlocks, cfg, sense_hw, flag_io, blocks, pushes, max_reduction,
                   group_of, sample_rate, cur_sample_rate, rate_knob_prev, elapsed, dt,
                   skip, buf, unlock_elem, reasons, preserve_result, metafiles, iter,
                   iter_unlocks, unlock_writes, sig_in_read, read_result, pcm_opens>>


\* mutant: the iteration ends without the sentinel write
UnlockSkipped ==
    /\ pc = "unlock"
    /\ pc' = "top"
    /\ buf' = << >>
    /\ cur_sample_rate' = 0
    /\ rate_knob_prev' = 0
    /\ dt' = 0
    /\ UNCHANGED <<sigquit, flagfile, boots, cold_boot, bb_enabled, sig_at, sig_unlocks, cfg, sense_hw, flag_io, blocks, pushes, max_reduction,
                   group_of, groups, spk, level, written, lvl_writes, sample_rate, elapsed, skip,
                   once_nominal, unlock_elem, panic, reasons, preserve_result, metafiles,
                   iter, iter_unlocks, unlock_writes, sig_in_read, ran, read_result,
                   pcm_opens>>

\* line 373: rewrite the unlock sentinel; ok is whether elem_write succeeds.
\* The iteration ends and its locals (buf_read, cur_sample_rate, dt) go out of scope
Unlock ==
    /\ pc = "unlock"
    /\ \E ok \in BOOLEAN :
        IF ok
        THEN /\ unlock_elem' = UNLOCK_MAGIC
             /\ unlock_writes' = unlock_writes + 1
             /\ iter_unlocks' = iter_unlocks + 1
             /\ pc' = "top"
             /\ panic' = panic
             /\ buf' = << >>
             /\ cur_sample_rate' = 0
             /\ rate_knob_prev' = 0
             /\ dt' = 0
        ELSE /\ Raise(StringPanic("Could not write elem value"))
             /\ UNCHANGED <<unlock_elem, unlock_writes, iter_unlocks, buf,
                            cur_sample_rate, rate_knob_prev, dt>>
    /\ SigUnlocks
    /\ UNCHANGED <<sigquit, flagfile, boots, cold_boot, bb_enabled, sig_at, cfg, sense_hw, flag_io, blocks, pushes, max_reduction,
                   group_of, groups, spk, level, written, lvl_writes, sample_rate, elapsed, skip,
                   once_nominal, reasons, preserve_result, metafiles, iter, sig_in_read,
                   ran, read_result, pcm_opens>>


\* mutant: only the &'static str payload is recognised
ReasonOfStrOnly(p) == IF p.type = "str" THEN p.msg ELSE "Unknown panic"

\* lines 379-385: the message of a panic payload
ReasonOf(p) == IF p.type \in {"str", "String"} THEN p.msg ELSE "Unknown panic"

\* mutant: an empty ring is preserved like any other
PreserveEmptyToo(blks, reason, io_ok) ==
    IF ~io_ok THEN [result |-> "Err", meta |-> << >>]
    ELSE [result |-> "Ok", meta |-> <<[message |-> reason, blocks |-> << >>]>>]

\* Blackbox::preserve; io_ok is whether creating and writing the files succeeds
preserve(blks, reason, io_ok) ==
    IF blks = << >> THEN [result |-> "Ok", meta |-> << >>]
    ELSE IF ~io_ok THEN [result |-> "Err", meta |-> << >>]
    ELSE [result |-> "Ok", meta |-> <<MetaOf(blks, reason)>>]

\* lines 376-394: the panic caught by catch_unwind is preserved and re-raised;
\* the locals of the closure were dropped by the unwinding
PanicWrapper ==
    /\ pc = "panic"
    /\ IF bb_enabled
       THEN \E io_ok \in BOOLEAN :
              /\ reasons' = Append(reasons, ReasonOf(panic))
              /\ preserve_result' = preserve(blocks, ReasonOf(panic), io_ok).result
              /\ metafiles' = metafiles \o preserve(blocks, ReasonOf(panic), io_ok).meta
       ELSE UNCHANGED <<reasons, preserve_result, metafiles>>
    /\ pc' = "exit"
    /\ groups' = << >>
    /\ spk' = [s \in Speakers |-> DefaultState]
    /\ buf' = << >>
    /\ sample_rate' = 0
    /\ cur_sample_rate' = 0
    /\ rate_knob_prev' = 0
    /\ elapsed' = 0
    /\ dt' = 0
    /\ skip' = << >>
    /\ ran' = {}
    /\ once_nominal' = FALSE
    /\ lvl_writes' = NoWrites
    /\ UNCHANGED <<sigquit, flagfile, boots, cold_boot, bb_enabled, sig_at, sig_unlocks, cfg, sense_hw, flag_io, blocks, pushes, max_reduction,
                   group_of, level, written, unlock_elem, panic, iter, iter_unlocks,
                   unlock_writes, sig_in_read, read_result, pcm_opens>>

Next ==
    \/ Signal
    \/ Startup
    \/ LoopTop
    \/ ReadOk
    \/ ReadErr
    \/ PostRead
    \/ SampleRateStep
    \/ CatchUp
    \/ BlackboxPush
    \/ RunModels
    \/ Unlock
    \/ PanicWrapper

Spec == Init /\ [][Next]_vars

\* main is sequential code: every step but the blocking capture read is taken
\* once it is reached
\* the daemon is one thread: the step at its position is eventually taken
ProgramStep ==
    \/ Startup \/ LoopTop \/ PostRead \/ SampleRateStep \/ CatchUp
    \/ BlackboxPush \/ RunModels \/ Unlock \/ PanicWrapper

Fairness ==
    /\ WF_vars(ProgramStep)
    \* lines 96-108: the handler is installed without SA_RESTART, so a
    \* delivered signal ends the blocking read
    /\ WF_vars(sigquit /\ (ReadOk \/ ReadErr))

FairSpec == Spec /\ Fairness

(***************************************************************************)
(* Startups in sequence: the process ends and main is started again, with  *)
(* any configuration file, sense switches and flag file behaviour.  Only   *)
(* the startup, the top of the loop and the unwinding are followed; the    *)
(* capture read does not return.                                           *)
(***************************************************************************)
\* startups in one behaviour
MaxBoots == 2

\* main is entered again in a new process: its variables start over; the flag
\* file, the knobs, the files written and the command line stay
Restart ==
    /\ pc = "exit"
    /\ boots < MaxBoots
    /\ pc' = "start"
    /\ sigquit' = FALSE
    /\ sig_at' = "none"
    /\ sig_unlocks' = 0
    /\ cold_boot' = FALSE
    /\ panic' = NoPanic
    /\ reasons' = << >>
    /\ preserve_result' = "none"
    /\ written' = {}
    /\ iter' = 0
    /\ iter_unlocks' = 0
    /\ unlock_writes' = 0
    /\ sig_in_read' = FALSE
    /\ read_result' = "none"
    /\ pcm_opens' = 0
    /\ blocks' = << >>
    /\ pushes' = 0
    /\ UNCHANGED <<flagfile, boots, bb_enabled, cfg, sense_hw, flag_io, max_reduction,
                   group_of, groups, spk, level, lvl_writes, sample_rate,
                   cur_sample_rate, rate_knob_prev, elapsed, dt, skip, buf, once_nominal,
                   unlock_elem, metafiles, ran>>

BootInit == Start("start", Configs, SenseOutcomes, FlagOutcomes)

BootNext ==
    \/ Startup
    \/ Signal
    \/ LoopTop
    \/ PanicWrapper
    \/ Restart

BootSpec == BootInit /\ [][BootNext]_vars

(***************************************************************************)
(* The blackbox ring on its own: any sequence of push and reset calls.     *)
(***************************************************************************)
\* pushes without a reset in between
MaxPushes == 332

\* one blackbox, one command line, nothing else running
Alone(at) ==
    /\ Start(at, {GoodConfig}, {SenseOn}, {"ok"})
    /\ bb_enabled /\ ~flagfile /\ max_reduction = << >>
    /\ \A s \in Speakers : group_of[s] = 0

ringFixed ==
    <<pc, sigquit, flagfile, cold_boot, bb_enabled, sig_at, sig_unlocks, max_reduction, group_of, groups, spk,
      level, written, sample_rate, cur_sample_rate, rate_knob_prev, elapsed, dt, skip,
      buf, once_nominal, unlock_elem, panic, reasons, preserve_result, metafiles, iter,
      iter_unlocks, unlock_writes, sig_in_read, ran, read_result, pcm_opens, cfg,
      sense_hw, flag_io, boots, lvl_writes>>

RingInit == Alone("ring")

\* Blackbox::push of a block that carries its number since the last reset
RingPush ==
    /\ pc = "ring"
    /\ pushes < MaxPushes
    /\ blocks' = push(blocks, 1, <<pushes + 1>>, << >>)
    /\ pushes' = pushes + 1
    /\ UNCHANGED ringFixed

\* Blackbox::reset
RingReset ==
    /\ pc = "ring"
    /\ blocks' = reset(blocks)
    /\ pushes' = 0
    /\ UNCHANGED ringFixed

RingNext == RingPush \/ RingReset

RingSpec == RingInit /\ [][RingNext]_vars

(***************************************************************************)
(* The thermal model on its own: a cold boot followed by zero-power frames.*)
(***************************************************************************)
\* periods fed to run_model
MaxCoolPeriods == 8

\* one sample with voltage on every speaker and no current
Volts == [c \in 0..(channels - 1) |-> IF \E s \in Speakers : c = vs_chan(s) THEN 16384 ELSE 0]
\* frames whose every sample has power 0
ZeroFrames == {<<Silent>>, <<Silent, Silent>>, <<Volts, Silent>>}

coolFixed ==
    <<sigquit, flagfile, bb_enabled, sig_at, sig_unlocks, blocks, max_reduction, group_of, groups, level,
      written, cur_sample_rate, rate_knob_prev, elapsed, dt, skip, once_nominal,
      unlock_elem, panic, reasons, preserve_result, metafiles, iter_unlocks,
      unlock_writes, sig_in_read, ran, read_result, pcm_opens, cfg, sense_hw, flag_io,
      boots, lvl_writes, pushes>>

CoolInit ==
    /\ Start("cool_new", {GoodConfig, NarrowConfig}, {SenseOn}, {"ok"})
    /\ bb_enabled /\ ~flagfile /\ max_reduction = << >>
    /\ \A s \in Speakers : group_of[s] = 0

\* Speaker::new for every speaker on a cold boot
CoolNew ==
    /\ pc = "cool_new"
    /\ pc' = "cool"
    /\ cold_boot' = TRUE
    /\ spk' = [s \in Speakers |-> NewSpeakerState(TRUE)]
    /\ UNCHANGED <<buf, sample_rate, iter>>
    /\ UNCHANGED coolFixed

\* run_model of every speaker on one zero-power frame
CoolPeriod ==
    /\ pc = "cool"
    /\ iter < MaxCoolPeriods
    /\ iter' = iter + 1
    /\ \E rate \in RateVals \ {0}, frame \in ZeroFrames :
        /\ sample_rate' = rate
        /\ buf' = frame
        /\ spk' = [s \in Speakers |-> run_model(s, spk[s], frame, rate).st]
        /\ pc' = IF \E s \in Speakers : run_model(s, spk[s], frame, rate).panic # None
                 THEN "cool_panic" ELSE "cool"
    /\ UNCHANGED cold_boot
    /\ UNCHANGED coolFixed

CoolNext == CoolNew \/ CoolPeriod

CoolSpec == CoolInit /\ [][CoolNext]_vars

(***************************************************************************)
(* The gain computation on its own, on drawn limiter inputs.               *)
(***************************************************************************)
\* temperatures on the f32 grid, from below the window to above the limit
MinTemp == 10
MaxTemp == 30
TempGrid == {t \in MinTemp..MaxTemp : F32(t) = t}
\* min_gain values: large, small, inside the snap range, none
MinGains == {MinGainOf(amp_gain), -3010, -5, 0}

gainFixed ==
    <<sigquit, flagfile, cold_boot, bb_enabled, sig_at, sig_unlocks, blocks, max_reduction, group_of, groups,
      level, written, sample_rate, cur_sample_rate, rate_knob_prev, elapsed, dt, skip,
      buf, once_nominal, unlock_elem, panic, reasons, preserve_result, metafiles, iter,
      iter_unlocks, unlock_writes, sig_in_read, ran, read_result, pcm_opens, cfg,
      sense_hw, flag_io, boots, lvl_writes, pushes>>

GainInit == Alone("gain_new")

\* two speakers with the same min_gain and drawn hysteresis temperatures
GainDraw ==
    /\ pc = "gain_new"
    /\ pc' = "gain_in"
    /\ \E g \in MinGains, cl \in TempGrid, ml \in TempGrid, cr \in TempGrid :
        spk' = [s \in Speakers |->
                  [DefaultState EXCEPT
                     !.min_gain = g,
                     !.t_coil_hyst = IF s = "L" THEN cl ELSE cr,
                     !.t_magnet_hyst = IF s = "L" THEN ml ELSE cr]]
    /\ UNCHANGED gainFixed

\* lines 387-403 of run_model on every speaker
GainApply ==
    /\ pc = "gain_in"
    /\ pc' = "gain_out"
    /\ spk' = [s \in Speakers |-> GainUpdate(spk[s]).st]
    /\ UNCHANGED gainFixed

GainNext == GainDraw \/ GainApply

GainSpec == GainInit /\ [][GainNext]_vars

(***************************************************************************)
(* Properties.                                                             *)
(***************************************************************************)
Fatal == panic # NoPanic
Bound == t_limit + t_headroom
GroupSpeakers(g) == {s \in Speakers : InSeq(s, groups[g].speakers)}

\* C1: fail-closed.  A fatal path leaves no sentinel write in its iteration,
\* and once a fatal condition is raised the loop is not resumed and the
\* sentinel is never written again.
C1_FailClosed ==
    [][/\ (panic' # NoPanic) => (iter_unlocks' = 0 /\ pc' \in {"panic", "exit"})
       /\ Fatal => /\ panic' = panic
                   /\ pc' \in {"panic", "exit"}
                   /\ unlock_writes' = unlock_writes
                   /\ unlock_elem' = unlock_elem
                   /\ iter' = iter]_vars

\* a fatal condition in the second period, after the first period's sentinel write
C1_Witness == pc = "exit" /\ iter = 2 /\ unlock_writes = 2 /\ iter_unlocks = 0

\* C2: an iteration whose read returned data and that raises no fatal
\* condition writes the magic value exactly once, as its last step, after
\* run_model ran for every speaker and every group gain is committed; with
\* reads that keep returning data and no fault the write follows every read.
C2_SentinelEachPeriod ==
    /\ [][(unlock_writes' # unlock_writes /\ pc # "start")
            => /\ pc = "unlock" /\ pc' = "top"
               /\ unlock_writes' = unlock_writes + 1
               /\ iter_unlocks = 0 /\ iter_unlocks' = 1
               /\ unlock_elem' = -557728235
               /\ ran = Speakers
               /\ \A g \in DOMAIN groups : \A s \in GroupSpeakers(g) :
                      s \in written /\ level[s] = groups[g].gain]_vars
    /\ [][(pc # "top" /\ pc' = "top" /\ read_result' = "Ok")
            => (pc = "unlock" /\ unlock_writes' = unlock_writes + 1)]_vars
    /\ ((pc = "postread") ~> ((pc = "top" /\ iter_unlocks = 1) \/ Fatal))

\* two periods in a row, each with its sentinel write
C2_Witness == pc = "top" /\ iter = 2 /\ iter_unlocks = 1 /\ unlock_writes = 3
              /\ read_result = "Ok" /\ pcm_opens = 1

\* C3: every gain written to a speaker's volume knob lies in [min_gain, 0].
C3_GainWithinFloor ==
    pc \notin {"start", "exit"}
        => \A s \in written : spk[s].min_gain <= level[s] /\ level[s] <= 0

\* the state after the first k samples of b, without the temperature checks
RECURSIVE PrefixState(_, _, _, _, _)
PrefixState(s, st, b, rate, k) ==
    IF k = 0 THEN st
    ELSE SampleUpdate(PrefixState(s, st, b, rate, k - 1), SamplePower(s, b[k]), rate)

Exceeds(st) == st.t_coil > Bound \/ st.t_magnet > Bound

\* some sample of the frame would take a temperature of s over the bound
WouldExceed(s) ==
    \E k \in 1..Len(buf) : Exceeds(PrefixState(s, spk[s], buf, sample_rate, k))

C5_HysteresisEveryStep ==
    pc \notin {"start", "exit"} =>
        \A s \in Speakers :
            /\ spk[s].t_coil <= spk[s].t_coil_hyst
            /\ spk[s].t_coil_hyst <= spk[s].t_coil + t_hysteresis
            /\ spk[s].t_magnet <= spk[s].t_magnet_hyst
            /\ spk[s].t_magnet_hyst <= spk[s].t_magnet + t_hysteresis

\* C5 amended: after every run_model that returns normally each hysteresis
\* value lies between the f32 value of its temperature and that plus
\* t_hysteresis.
C5_HysteresisAfterRunModel ==
    \A s \in ran :
        /\ F32(spk[s].t_coil) <= spk[s].t_coil_hyst
        /\ spk[s].t_coil_hyst <= F32(spk[s].t_coil) + t_hysteresis
        /\ F32(spk[s].t_magnet) <= spk[s].t_magnet_hyst
        /\ spk[s].t_magnet_hyst <= F32(spk[s].t_magnet) + t_hysteresis

\* a coil that cooled by more than t_hysteresis: the hold was bled down
C5_Witness ==
    \E s \in ran :
        /\ spk[s].t_coil_hyst = F32(spk[s].t_coil) + t_hysteresis
        /\ iter = 2

\* C6: a flag set while the loop is in the capture read makes that iteration
\* fatal with "SIGQUIT received", whatever the read returns; the blackbox is
\* preserved with that message and the iteration writes no sentinel.
C6_FatalSignal ==
    /\ [](sig_in_read =>
            /\ pc \in {"read", "postread", "panic", "exit"}
            /\ iter_unlocks = 0
            /\ pc \in {"panic", "exit"} => panic = StrPanic("SIGQUIT received")
            /\ (pc = "exit" /\ bb_enabled) => reasons = <<"SIGQUIT received">>
            /\ \A m \in 1..Len(metafiles) : metafiles[m].message = "SIGQUIT received")
    /\ (sig_in_read ~> (pc = "exit" /\ panic.msg = "SIGQUIT received"))

\* the flag was set during a read that returned data, and the ring was written out
C6_Witness ==
    /\ pc = "exit" /\ sig_in_read /\ read_result = "Ok"
    /\ bb_enabled /\ Len(metafiles) = 1

C8_RateStepAsStated ==
    pc = "catchup" =>
        /\ cur_sample_rate # 0
        /\ cur_sample_rate # rate_knob_prev => blocks = << >>

\* C8 amended: the rate is read after the capture read; a non-zero reading
\* that differs from the stored rate replaces it and clears the blackbox; a
\* zero reading changes neither; the iteration is fatal exactly when the
\* stored rate is then zero.
C8_RateStep ==
    /\ [][(pc = "rate" /\ pc' # "rate") =>
            \/ pc' = "panic" /\ panic'.msg = "Could not read elem value"
            \/ /\ sample_rate' = IF cur_sample_rate' \notin {0, sample_rate}
                                 THEN cur_sample_rate' ELSE sample_rate
               /\ blocks' = IF cur_sample_rate' \notin {0, sample_rate}
                            THEN << >> ELSE blocks
               /\ IF cur_sample_rate' = 0 /\ sample_rate = 0
                  THEN pc' = "panic" /\ panic' = StrPanic("Invalid sample rate")
                  ELSE pc' = "catchup" /\ panic' = NoPanic]_vars
    /\ [](pc = "rate" => read_result = "Ok")

\* a zero reading that left a stored rate and a non-empty blackbox alone
C8_Witness ==
    /\ pc = "catchup" /\ cur_sample_rate = 0 /\ sample_rate # 0
    /\ blocks # << >>

\* C9: a suspended stream (no signal flag) has the PCM reopened and the loop
\* go on with the next iteration: no fatal condition, no model run, no gain
\* committed, no sentinel; any other read error is fatal.
C9_CaptureErrors ==
    [][(pc = "read" /\ read_result' \notin {"none", "Ok"} /\ ~sigquit) =>
         IF read_result' = "ESTRPIPE"
         THEN /\ pcm_opens' = pcm_opens + 1 =>
                    /\ pc' = "top" /\ panic' = NoPanic
                    /\ ran' = {} /\ spk' = spk /\ groups' = groups
                    /\ level' = level /\ written' = written
                    /\ unlock_writes' = unlock_writes /\ iter_unlocks' = 0
              /\ pcm_opens' = pcm_opens => pc' = "panic"
         ELSE pc' = "panic" /\ panic' # NoPanic /\ pcm_opens' = pcm_opens]_vars

\* back at the top of the loop on a reopened PCM
C9_Witness ==
    /\ pc = "top" /\ read_result = "ESTRPIPE" /\ pcm_opens = 2
    /\ ~Fatal /\ iter = 1 /\ iter_unlocks = 0

\* C10: every fatal condition ends in the wrapper: with the blackbox enabled
\* preserve is called exactly once, with the panic message, and the panic is
\* re-raised whether preserve succeeds or fails.
C10_FatalUnwind ==
    /\ [](/\ Fatal <=> pc \in {"panic", "exit"}
          /\ pc # "exit" => reasons = << >>
          /\ pc = "exit" => reasons = IF bb_enabled THEN <<panic.msg>> ELSE << >>
          /\ preserve_result # "none" => pc = "exit")
    /\ [][pc = "panic" => (pc' = "exit" /\ panic' = panic)]_vars
    /\ [][pc = "exit" => pc' = "exit"]_vars

\* the panic was re-raised although preserve returned an error
C10_Witness ==
    /\ pc = "exit" /\ bb_enabled /\ preserve_result = "Err"
    /\ Len(reasons) = 1 /\ panic.type = "String"

\* C11: the ring holds exactly the most recent min(k, MAX_BLOCKS) blocks
\* pushed since the last reset, in push order (k pushes since that reset); so it
\* is never longer than MAX_BLOCKS, a push on a full ring drops the oldest
\* block only, and a reset leaves it empty.
C11_RingContent ==
    /\ Len(blocks) = Min(pushes, MAX_BLOCKS)
    /\ Len(blocks) <= 330
    /\ \A i \in 1..Len(blocks) : blocks[i].data = <<pushes - Len(blocks) + i>>

\* two pushes on a full ring: blocks 3..332 are left
C11_Witness ==
    /\ pc = "ring" /\ pushes = MAX_BLOCKS + 2 /\ Len(blocks) = MAX_BLOCKS
    /\ blocks[1].data = <<3>>

BelowThreshold(gs) ==
    max_reduction # << >> /\ \E g \in DOMAIN gs : gs[g].gain < -max_reduction[1]

\* C12 as stated: with a threshold set, an iteration is fatal whenever some
\* group has been nominal (committed gain 0) before and a group's gain is now
\* below the threshold.
C12_AnyGroupEverNominal ==
    [][(pc = "model" /\ pc' = "unlock" /\ \E g \in DOMAIN groups : groups[g].gain = 0)
         => ~BelowThreshold(groups')]_vars

\* C12 amended: the fault "Gain reduction exceeded threshold" is raised only
\* with a threshold set, after an earlier iteration ended with every group at
\* gain 0 (once_nominal), on a group gain below the threshold; from then on no
\* iteration ends normally with a group below the threshold; with no
\* threshold set the fault never occurs.
C12_MaxReduction ==
    /\ [][(pc = "model" /\ pc' # "model") =>
            /\ panic'.msg = "Gain reduction exceeded threshold"
                 => (once_nominal /\ BelowThreshold(groups'))
            /\ (pc' = "unlock" /\ once_nominal) => ~BelowThreshold(groups')
            /\ once_nominal' = (once_nominal \/
                                (pc' = "unlock" /\ \A g \in DOMAIN groups' :
                                                      groups'[g].gain = 0))]_vars
    /\ [][pc \notin {"model", "panic"} => once_nominal' = once_nominal]_vars
    /\ [](panic.msg = "Gain reduction exceeded threshold" => max_reduction # << >>)

\* the fault, in the period after an all-nominal one
C12_Witness ==
    /\ pc = "panic" /\ panic = StrPanic("Gain reduction exceeded threshold")
    /\ iter = 2 /\ BelowThreshold(groups)

OpenCardFailed == panic = StringPanic("Could not open sound card!")

\* C13 as stated: a startup is a cold boot exactly when the flag file is
\* absent, and no startup after the first is a cold boot.
C13_ColdIffAbsent ==
    /\ [][(pc = "start" /\ pc' # "start" /\ ~OpenCardFailed')
            => (cold_boot' = ~flagfile)]_vars
    /\ [][(pc = "start" /\ boots >= 1) => ~cold_boot']_vars

\* C13 amended: a startup that reaches the detection is a cold boot exactly
\* when the flag file is absent and both the existence test and the creation
\* of the file succeed; the file is created by that detection (whatever
\* happens later in the startup) and never removed, so at most one startup is
\* a cold boot and every startup that finds the file is a warm boot; a startup
\* that fails before the detection leaves the file as it was.
C13_BootMode ==
    /\ [][(pc = "start" /\ pc' # "start") =>
            IF OpenCardFailed' THEN flagfile' = flagfile /\ ~cold_boot'
            ELSE /\ cold_boot' = (~flagfile /\ flag_io = "ok")
                 /\ flagfile' = (flagfile \/ flag_io = "ok")
                 /\ cold_boot' => (~flagfile /\ flagfile')]_vars
    /\ [][flagfile => flagfile']_vars

\* a second startup that is warm because the first one left the file
C13_Witness ==
    /\ boots = 2 /\ pc = "top" /\ iter = 0 /\ flag_io = "ok"
    /\ flagfile /\ ~cold_boot /\ written = {}

\* C14: the metadata written on the fatal path shows, for each speaker, the
\* state of the period that failed: every block entry carries the snapshot of
\* the most recent block of the ring.
C14_MetaLatestState ==
    (pc = "exit" /\ metafiles # << >>) =>
        \A b \in DOMAIN metafiles[Len(metafiles)].blocks :
            metafiles[Len(metafiles)].blocks[b].speakers = blocks[Len(blocks)].state

\* the startup invariants on the configuration
I1 == \A s \in Speakers : cfg.is_chan[s] < cfg.channels /\ cfg.vs_chan[s] < cfg.channels
I2 == 2 * Cardinality(Speakers) <= cfg.channels
I3 == cfg.t_limit - cfg.t_window > cfg.t_ambient

\* C15: with a configuration that violates I1, I2 or I3 the startup ends in a
\* fatal error before the first loop iteration; the unlock sentinel is never
\* written and no volume knob is written.
C15_StartupInvariants ==
    /\ [](~(I1 /\ I2 /\ I3) =>
            /\ pc \in {"start", "panic", "exit"}
            /\ iter = 0 /\ unlock_writes = 0 /\ unlock_elem # UNLOCK_MAGIC
            /\ written = {} /\ \A s \in Speakers : lvl_writes[s] = 0)
    /\ [][(~(I1 /\ I2 /\ I3) /\ pc = "start" /\ pc' # "start")
            => (pc' = "panic" /\ panic' # NoPanic)]_vars

\* I1 and I3 hold, I2 does not: the startup dies on the channel-count assert
C15_Witness ==
    /\ I1 /\ I3 /\ ~I2 /\ pc = "exit" /\ boots = 1
    /\ panic = StrPanic("assertion failed: 2 * speaker_count <= globals.channels")

\* C20: a startup gets past the construction of the mixers only if, for every
\* speaker, both the VSENSE and the ISENSE switch read back true.
C20_BothSenseVerified ==
    pc = "top" => \A s \in Speakers : sense_hw[s].vs /\ sense_hw[s].is

\* the temperatures of st are at or above the ambient temperature
AtLeastAmbient(st) == st.t_coil >= t_ambient /\ st.t_magnet >= t_ambient

\* C16: from the cold-boot state, under zero-power frames, run_model never
\* panics, t_coil and t_magnet are each non-increasing from one sample to the
\* next and never below t_ambient, and the gain of every period is 0.
C16_ColdCooling ==
    /\ [](pc # "cool_panic")
    /\ [](pc = "cool" => \A s \in Speakers : AtLeastAmbient(spk[s]) /\ spk[s].gain = 0)
    /\ [][(pc = "cool" /\ iter' = iter + 1) =>
            \A s \in Speakers :
               /\ \A k \in 1..Len(buf') :
                    /\ PrefixState(s, spk[s], buf', sample_rate', k).t_coil
                         <= PrefixState(s, spk[s], buf', sample_rate', k - 1).t_coil
                    /\ PrefixState(s, spk[s], buf', sample_rate', k).t_magnet
                         <= PrefixState(s, spk[s], buf', sample_rate', k - 1).t_magnet
                    /\ AtLeastAmbient(PrefixState(s, spk[s], buf', sample_rate', k))
               /\ spk'[s].t_coil = PrefixState(s, spk[s], buf', sample_rate', Len(buf')).t_coil
               /\ spk'[s].t_magnet = PrefixState(s, spk[s], buf', sample_rate', Len(buf')).t_magnet
               /\ spk'[s].gain = 0]_vars

\* the limiter input of speaker s: max(t_coil_hyst, t_magnet_hyst)
LimiterTemp(s) == Max(spk[s].t_coil_hyst, spk[s].t_magnet_hyst)
InWindow(t) == t_limit - t_window <= t /\ t <= t_limit

\* the parts of C17 that hold as stated: gain 0 up to the start of the window,
\* and a gain that does not rise with the temperature over the window
GainZeroThenFalling ==
    /\ \A s \in Speakers : LimiterTemp(s) <= t_limit - t_window => spk[s].gain = 0
    /\ \A s, r \in Speakers :
          (InWindow(LimiterTemp(s)) /\ InWindow(LimiterTemp(r))
             /\ LimiterTemp(s) <= LimiterTemp(r)) => spk[s].gain >= spk[r].gain

\* C17 as stated: gain 0 up to the start of the window, non-increasing over
\* the window, and equal to min_gain at t_limit.
C17_GainAsStated ==
    pc = "gain_out" =>
        /\ GainZeroThenFalling
        /\ \A s \in Speakers : LimiterTemp(s) = t_limit => spk[s].gain = spk[s].min_gain

\* C17 amended: gain 0 up to the start of the window, non-increasing over the
\* window; at t_limit the gain is min_gain when min_gain <= -0.01 dB and 0
\* when min_gain is above -0.01 dB.
C17_GainOverWindow ==
    pc = "gain_out" =>
        /\ GainZeroThenFalling
        /\ \A s \in Speakers : LimiterTemp(s) = t_limit =>
              spk[s].gain = IF spk[s].min_gain <= SnapAbove THEN spk[s].min_gain ELSE 0

\* L at t_limit with gain min_gain, R inside the window with a gain in between
C17_Witness ==
    /\ pc = "gain_out"
    /\ LimiterTemp("L") = t_limit /\ spk["L"].min_gain < SnapAbove
    /\ spk["L"].gain = spk["L"].min_gain
    /\ t_limit - t_window < LimiterTemp("R") /\ LimiterTemp("R") < t_limit
    /\ spk["L"].gain < spk["R"].gain /\ spk["R"].gain < 0

\* the gain main computes for group g from the frame read: the minimum of
\* run_model over the speakers of the group
ComputedGain(g) ==
    LET gains == {run_model(s, spk[s], buf, sample_rate).gain : s \in GroupSpeakers(g)}
    IN  CHOOSE m \in gains : \A x \in gains : m <= x

\* C18: in an iteration that completes the model, a group whose computed gain
\* (the minimum over its speakers) differs from its last committed gain has
\* that gain written once to every speaker's volume knob and recorded; a
\* group whose computed gain equals the committed one has no knob written.
\* In any iteration a knob is written at most once, with the computed gain of
\* its group, and only when that differs from the committed gain.
C18_GroupCommit ==
    /\ [][(pc = "model" /\ pc' = "unlock") =>
            \A g \in DOMAIN groups :
               IF ComputedGain(g) # groups[g].gain
               THEN /\ groups'[g].gain = ComputedGain(g)
                    /\ \A s \in GroupSpeakers(g) :
                          lvl_writes'[s] = 1 /\ level'[s] = ComputedGain(g)
               ELSE /\ groups'[g].gain = groups[g].gain
                    /\ \A s \in GroupSpeakers(g) :
                          lvl_writes'[s] = 0 /\ level'[s] = level[s]]_vars
    /\ [][(pc = "model" /\ pc' # "model") =>
            \A g \in DOMAIN groups : \A s \in GroupSpeakers(g) :
               IF lvl_writes'[s] = 0 THEN level'[s] = level[s]
               ELSE /\ lvl_writes'[s] = 1
                    /\ level'[s] = ComputedGain(g)
                    /\ ComputedGain(g) # groups[g].gain]_vars

\* a group of two speakers committed at the lower of their two gains
C18_Witness ==
    /\ pc = "unlock"
    /\ \E g \in DOMAIN groups :
          /\ Cardinality(GroupSpeakers(g)) = 2
          /\ groups[g].gain < 0
          /\ \A s \in GroupSpeakers(g) : lvl_writes[s] = 1 /\ level[s] = groups[g].gain
          /\ \E s \in GroupSpeakers(g) : spk[s].gain > groups[g].gain

InLoop == pc \notin {"start", "panic", "exit"}

\* C19: a cold boot writes 0 dB once to every speaker before the first
\* iteration and records gain 0 for every group, and afterwards a group at
\* gain 0 has a knob written only when its computed gain is not 0; a warm boot
\* writes no knob before the loop, and the first iteration that completes the
\* model writes the computed gain to every speaker of every group.
C19_GroupStart ==
    /\ [][(pc = "start" /\ pc' = "top") =>
            IF cold_boot'
            THEN /\ \A s \in Speakers : lvl_writes'[s] = 1 /\ level'[s] = 0
                 /\ \A g \in DOMAIN groups' : groups'[g].gain = 0
            ELSE /\ lvl_writes' = lvl_writes /\ level' = level /\ written' = {}]_vars
    /\ [][(cold_boot /\ pc = "model") =>
            \A g \in DOMAIN groups : \A s \in GroupSpeakers(g) :
               (groups[g].gain = 0 /\ lvl_writes'[s] > 0) => ComputedGain(g) # 0]_vars
    /\ [][(InLoop /\ (level' # level \/ groups' # groups)) => pc = "model"]_vars
    /\ []((~cold_boot /\ InLoop /\ pc # "unlock") => (written = {} \/ written = Speakers))
    /\ [][(~cold_boot /\ pc = "model" /\ pc' = "unlock" /\ written = {}) =>
            \A g \in DOMAIN groups : \A s \in GroupSpeakers(g) :
               lvl_writes'[s] = 1 /\ level'[s] = ComputedGain(g)]_vars

\* a warm boot whose first completed iteration computed gain 0 and wrote it
C19_Witness ==
    /\ ~cold_boot /\ pc = "unlock" /\ iter = 1
    /\ \A s \in Speakers : lvl_writes[s] = 1 /\ level[s] = 0

\* C21: a speaker constructed on a cold boot has t_coil = (t_limit - t_window) - 1
\* and one constructed on a warm boot has t_coil = t_limit; t_magnet =
\* t_ambient + (t_coil - t_ambient) * tr_magnet / (tr_magnet + tr_coil); so,
\* with I3, t_ambient <= t_magnet <= t_coil <= t_limit when the loop starts.
C21_InitialState ==
    (pc = "top" /\ iter = 0) =>
        \A s \in Speakers :
           /\ spk[s].t_coil = IF cold_boot THEN (t_limit - t_window) - OneDegree ELSE t_limit
           /\ spk[s].t_magnet =
                 t_ambient + RoundDiv((spk[s].t_coil - t_ambient) * tr_magnet,
                                      tr_magnet + tr_coil)
           /\ I3 => /\ t_ambient <= spk[s].t_magnet
                    /\ spk[s].t_magnet <= spk[s].t_coil
                    /\ spk[s].t_coil <= t_limit

\* C22: after construction min_gain never changes; skip_model changes
\* t_coil and t_magnet only; update changes no field of the state (after the
\* cold-boot preset the state is the constructed one, after a commit it is
\* the one run_model left); and the state changes only in construction,
\* skip_model, run_model, and when the speakers are dropped by the unwinding.
C22_FrameConditions ==
    /\ [][(pc \notin {"start", "panic"}) =>
            \A s \in Speakers : spk'[s].min_gain = spk[s].min_gain]_vars
    /\ [][pc = "catchup" =>
            \A s \in Speakers :
               spk'[s] = [spk[s] EXCEPT !.t_coil = spk'[s].t_coil,
                                        !.t_magnet = spk'[s].t_magnet]]_vars
    /\ [][(pc = "model" /\ pc' = "unlock") =>
            \A s \in Speakers : spk'[s] = run_model(s, spk[s], buf, sample_rate).st]_vars
    /\ [][(pc = "start" /\ pc' = "top") =>
            \A s \in Speakers : spk'[s] = NewSpeakerState(cold_boot')]_vars
    /\ [][spk' # spk => pc \in {"start", "catchup", "model", "panic"}]_vars

\* after a catch-up that cooled the coil below a hysteresis value it left alone
C22_Witness ==
    /\ pc = "push" /\ skip # << >> /\ iter = 2
    /\ spk["L"].t_coil_hyst > F32(spk["L"].t_coil) + t_hysteresis
    /\ spk["L"].gain < 0 /\ spk["L"].min_gain < 0

\* C23: preserve on an empty ring returns Ok and writes no file, whether or
\* not files could be written; so a run that ends with no push since the
\* start or since the last reset leaves no file.
C23_PreserveEmpty ==
    /\ [][(pc = "panic" /\ bb_enabled /\ blocks = << >>) =>
            (preserve_result' = "Ok" /\ metafiles' = metafiles)]_vars
    /\ []((pc = "exit" /\ pushes = 0) => metafiles = << >>)
    /\ [](pushes = 0 <=> blocks = << >>)

\* a fatal condition in the first period, after the read and before the push
C23_Witness ==
    /\ pc = "exit" /\ bb_enabled /\ iter = 1 /\ read_result = "Ok" /\ pushes = 0
    /\ blocks = << >> /\ reasons # << >> /\ preserve_result = "Ok" /\ metafiles = << >>

\* the minimum of the gains run_model last returned for the speakers of group g
MinSpeakerGain(g) ==
    CHOOSE m \in {spk[s].gain : s \in GroupSpeakers(g)} :
        \A s \in GroupSpeakers(g) : m <= spk[s].gain

CheckedAtThreePoints ==
    [][(sigquit /\ pc \in {"top", "read", "postread"} /\ pc' # pc) =>
         \/ pc = "read" /\ pc' = "postread" /\ read_result' = "Ok"
         \/ /\ pc' = "panic" /\ panic' = StrPanic("SIGQUIT received")
            /\ unlock_writes' = unlock_writes]_vars

\* C25 as stated: after the flag is set the sentinel is written at most once
\* more, and only when the flag was set after the check that follows the read
\* of the current iteration; the loop is then at the top of the next
\* iteration, where it raises the fatal condition; the flag is checked at the
\* three points.
C25_OneMoreOnlyAfterCheck ==
    /\ [](sig_unlocks <= 1)
    /\ [](sig_unlocks = 1 => (sig_at = "late" /\ pc \in {"top", "panic", "exit"}))
    /\ CheckedAtThreePoints

\* C25 amended: after the flag is set the sentinel is written at most once
\* more, and only when the flag was set after the check that follows the read
\* of the current iteration or during startup before the first sentinel write;
\* the loop is then at the top of an iteration, where it raises the fatal
\* condition; the flag is checked at the three points.
C25_SignalBound ==
    /\ [](sig_unlocks <= 1)
    /\ [](sig_unlocks = 1 =>
            (sig_at \in {"late", "startup"} /\ pc \in {"top", "panic", "exit"}))
    /\ CheckedAtThreePoints

\* the flag set late in the first iteration: one more write, then the fatal
\* condition at the top of the second
C25_Witness ==
    /\ sig_at = "late" /\ sig_unlocks = 1 /\ iter = 2 /\ unlock_writes = 2
    /\ pc = "panic" /\ panic = StrPanic("SIGQUIT received")

\* C26: the reopen after a suspend leaves the time since the last update
\* running (it only grows across the failed read); the next iteration whose
\* read returns data takes all of it as dt, and when dt exceeds four periods
\* skip_model(dt - period) is applied to every speaker before run_model runs.
C26_SuspendAccounted ==
    /\ [][(pc = "read" /\ pc' = "top") =>
            /\ IsSuspend(read_result') /\ pcm_opens' = pcm_opens + 1
            /\ elapsed' > elapsed \/ elapsed' = MaxElapsed
            /\ spk' = spk]_vars
    /\ [][(pc = "top" /\ pc' = "read") => elapsed' = elapsed]_vars
    /\ [][(pc = "catchup" /\ pc' = "push") =>
            /\ dt' = elapsed
            /\ dt' > 4 * Pt(sample_rate) =>
                  /\ skip' = <<dt' - Pt(sample_rate)>>
                  /\ \A s \in Speakers :
                        spk'[s] = skip_model(spk[s], dt' - Pt(sample_rate))]_vars
    /\ []((pc \in {"push", "model"} /\ dt > 4 * Pt(sample_rate)) => skip # << >>)

\* a suspend of 8 ticks and a read of 9 ticks: together more than four
\* periods of 4 ticks, and the catch-up runs over 13 of them
C26_Witness ==
    /\ pc = "model" /\ iter = 2 /\ pcm_opens = 2 /\ read_result = "Ok"
    /\ sample_rate = 1 /\ dt = 17 /\ skip = <<13>>

\* the speaker states of groups 0..=max_idx as the blackbox push clones them
GroupStates ==
    LET max_idx == CHOOSE m \in DOMAIN groups : \A g \in DOMAIN groups : g <= m
    IN  [i \in 0..max_idx |->
            [k \in 1..Len(groups[i].speakers) |-> spk[groups[i].speakers[k]]]]

NewestBlock == blocks[Len(blocks)]

\* C27: with the blackbox enabled the frame is in the ring before run_model
\* runs on it: from the model step to the end of the iteration, and in the
\* fatal condition any of these steps raises, the ring is non-empty and its
\* newest block carries the frame being processed, the stored sample rate and
\* the speaker states as they were before run_model was applied to the frame.
C27_FaultingFrame ==
    /\ []((bb_enabled /\ pc \in {"model", "unlock"}) =>
            /\ blocks # << >>
            /\ NewestBlock.data = buf
            /\ NewestBlock.sample_rate = sample_rate)
    /\ []((bb_enabled /\ pc = "model") => NewestBlock.state = GroupStates)
    /\ [][(bb_enabled /\ pc \in {"model", "unlock"}) => blocks' = blocks]_vars

\* the iteration raised the fatal condition after run_model had changed the
\* state of a speaker; the newest block holds the frame and the states from
\* before it
C27_Witness ==
    /\ pc = "panic" /\ bb_enabled /\ iter = 2
    /\ panic = StrPanic("Gain reduction exceeded threshold")
    /\ blocks # << >> /\ NewestBlock.data = buf
    /\ NewestBlock.state # GroupStates

\* C28: all blocks in the ring carry the same sample_rate, which in the loop
\* is the stored rate (a change of the stored rate clears the ring before the
\* next push); so in every metadata file preserve writes, the top-level
\* sample_rate is the sample_rate of every block of the file.
C28_UniformRate ==
    /\ \A i, j \in 1..Len(blocks) : blocks[i].sample_rate = blocks[j].sample_rate
    /\ pc \notin {"panic", "exit"} =>
          \A i \in 1..Len(blocks) : blocks[i].sample_rate = sample_rate
    /\ \A m \in 1..Len(metafiles) :
          \A b \in 1..Len(metafiles[m].blocks) :
              metafiles[m].blocks[b].sample_rate = metafiles[m].sample_rate

\* the second iteration read a new rate: the block of the first is gone and
\* the ring holds the frame pushed at the new rate
C28_Witness ==
    /\ pc = "model" /\ iter = 2 /\ skip = << >>
    /\ rate_knob_prev # 0 /\ rate_knob_prev # sample_rate
    /\ Len(blocks) = 1 /\ blocks[1].sample_rate = sample_rate

\* C29: the period time, skip_model and run_model are only computed with a
\* non-zero stored rate; a zero reading of the knob leaves the stored rate and
\* the blackbox as they are; an iteration whose knob read leaves a zero stored
\* rate is fatal with "Invalid sample rate", and the stored rate is zero only
\* as long as no non-zero rate was read since startup.
C29_NoZeroRate ==
    /\ [](pc \in {"catchup", "push", "model", "unlock"} => sample_rate # 0)
    /\ [][(pc = "rate" /\ pc' # pc /\ cur_sample_rate' = 0) =>
            sample_rate' = sample_rate /\ blocks' = blocks]_vars
    /\ [][(pc = "rate" /\ pc' # pc /\ sample_rate' = 0) =>
            /\ pc' = "panic"
            /\ \/ panic' = StrPanic("Invalid sample rate")
               \/ panic' = StringPanic("Could not read elem value")]_vars
    /\ [][(pc = "rate" /\ panic' = StrPanic("Invalid sample rate")) =>
            sample_rate = 0 /\ cur_sample_rate' = 0]_vars
    /\ [][(sample_rate # 0 /\ pc # "panic") => sample_rate' # 0]_vars

\* the knob read zero in the second iteration: the rate of the first is
\* kept, both frames are in the ring and the model has run
C29_Witness ==
    /\ pc = "unlock" /\ iter = 2 /\ cur_sample_rate = 0 /\ sample_rate = 2
    /\ bb_enabled /\ Len(blocks) = 2 /\ ran # {}

\* the configured group indices are not exactly 0..max
GroupIndices == {group_of[s] : s \in Speakers}
NonContiguous ==
    GroupIndices # 0..(CHOOSE m \in GroupIndices : \A g \in GroupIndices : g <= m)

\* C30: with the blackbox enabled and group indices that are not exactly
\* 0..max, the blackbox push of the first iteration that reaches it raises a
\* fatal condition: run_model is never called and the sentinel is never
\* written in the loop; with the blackbox disabled the push step does nothing
\* and that fatal condition never occurs.
C30_ContiguousGroups ==
    /\ [][(pc = "push" /\ pc' # pc /\ bb_enabled /\ NonContiguous) =>
            /\ pc' = "panic" /\ panic' = StrPanic("no entry found for key")
            /\ spk' = spk /\ blocks' = blocks
            /\ unlock_writes' = unlock_writes]_vars
    /\ []((bb_enabled /\ NonContiguous) =>
            /\ pc \notin {"model", "unlock"}
            /\ ran = {} /\ pushes = 0 /\ iter_unlocks = 0 /\ unlock_writes <= 1)
    /\ [][(pc = "push" /\ pc' # pc /\ ~bb_enabled) =>
            (pc' = "model" /\ panic' = panic)]_vars
    /\ [](~bb_enabled => panic # StrPanic("no entry found for key"))
    /\ []((panic = StrPanic("no entry found for key")) => NonContiguous)

\* both speakers in group 1: the push of the first iteration looked up group 0
C30_Witness ==
    /\ pc = "panic" /\ panic = StrPanic("no entry found for key")
    /\ bb_enabled /\ GroupIndices = {1}
    /\ iter = 1 /\ unlock_writes = 1 /\ ran = {} /\ blocks = << >>

====
